---- MODULE Spec2Model ----
(***************************************************************************)
(* Whistleblowing API: the report store, the case-password scheme and the  *)
(* reporter / admin / agency handlers that read and write reports.         *)
(*                                                                         *)
(* A request is a process that suspends at its awaits.  A handler that     *)
(* reads a report and later saves it is two actions: XBegin (validation    *)
(* and reads, up to the save) and XSave (the save, the audit append and    *)
(* the response).  Read-only handlers and early returns are one action.    *)
(* A response stays in res until Deliver hands it to the caller.           *)
(***************************************************************************)
EXTENDS Integers, Sequences, FiniteSets, TLC

(***************************************************************************)
(* Bounds of the model.                                                    *)
(***************************************************************************)
MaxReports == 2      \* reports that can be persisted
RandomBase == 10     \* crypto.randomBytes(3) yields a value in
MaxRandom == 1       \*   RandomBase..RandomBase + MaxRandom
MaxWork == 3         \* reports, array elements and reassigned references in the store
MaxNewUsers == 1     \* users created after startup
NumProcs == 2        \* requests that can be in flight at once
NumSuffixes == 2     \* distinct random caseID suffixes

Procs == 1..NumProcs

Absent == "absent"   \* an undefined / missing scalar
NoId == 0            \* null ObjectId

(***************************************************************************)
(* Pure functions: hex rendering, the lookup digest, the credential hash.  *)
(***************************************************************************)
HexLower == <<"0","1","2","3","4","5","6","7","8","9","a","b","c","d","e","f">>

\* Buffer.toString("hex") of 3 bytes: six lowercase hex digits, high first.
ToHex(n) ==
  [i \in 1..6 |->
     HexLower[(CASE i = 1 -> (n \div 1048576) % 16
                 [] i = 2 -> (n \div 65536) % 16
                 [] i = 3 -> (n \div 4096) % 16
                 [] i = 4 -> (n \div 256) % 16
                 [] i = 5 -> (n \div 16) % 16
                 [] OTHER -> n % 16) + 1]]

UpperChar(c) ==
  CASE c = "a" -> "A" [] c = "b" -> "B" [] c = "c" -> "C"
    [] c = "d" -> "D" [] c = "e" -> "E" [] c = "f" -> "F"
    [] OTHER -> c

\* String.prototype.toUpperCase
ToUpperCase(s) == [i \in 1..Len(s) |-> UpperChar(s[i])]

\* crypto.randomBytes(3).toString("hex").toUpperCase()
GeneratePlainPassword(n) == ToUpperCase(ToHex(n))

\* crypto.createHash("sha256").update(p).digest("hex"): deterministic,
\* unsalted, collision-free on the inputs of the model.
Sha256(p) == [alg |-> "sha256", of |-> p]

\* bcrypt.genSalt(10): 16 random bytes, never the same twice.  The salt is
\* named after the request that drew it: its slot and the store size it saw.
GenSalt(p, size) == [slot |-> p, size |-> size]

\* bcrypt.hash(p, salt)
BcryptHash(p, salt) == [alg |-> "bcrypt", salt |-> salt, of |-> p]

\* bcrypt.compare(entered, hash)
BcryptCompare(entered, hash) == BcryptHash(entered, hash.salt) = hash

(***************************************************************************)
(* Request inputs.                                                         *)
(***************************************************************************)
\* Candidate secrets a caller can send: every secret the generator can
\* produce, a lowercase string the generator never produces, and the empty
\* string.
RandomValues == RandomBase..(RandomBase + MaxRandom)
NeverIssued == ToHex(RandomBase)
EmptyString == <<>>
Candidates ==
  {GeneratePlainPassword(n) : n \in RandomValues} \cup {NeverIssued, EmptyString}

Suffixes == 100..(99 + NumSuffixes)  \* Math.floor(100 + Math.random() * 900)
Texts == {Absent, "text"}  \* a request string: missing/empty, or present
ReporterTypes == {"anonymous", "confidential", "other"}
Statuses == {"pending", "under review", "resolved", "closed"}
StatusFilters == {Absent, "pending"}   \* the ?status= filter of the list routes
Mimetype == <<"image", "/", "png">>   \* the string "image/png"
FileLists == {<<>>, <<[location |-> "s3", mimetype |-> Mimetype]>>}

VARIABLES
  reports,      \* the Report collection, in insertion order; _id = index
  categories,   \* the Category collection: _id -> [name] (deleted ids absent)
  agencies,     \* the Agency collection: _id -> [name, users]
  users,        \* the User collection: _id -> [email, password, role, active]
  inflight,     \* per request slot: the suspended handler and its locals
  res,          \* the response on its way to the caller
  issued,       \* per report _id: the case password its creator was sent
  auditLog,     \* the AuditLog collection, in insertion order
  sink,         \* the AuditLog collection's mode: "unobserved", "up" or "down"
  usersCreated  \* the number of User documents created since startup

vars == <<reports, categories, agencies, users, inflight, res, issued, auditLog, sink, usersCreated>>

Idle == [pc |-> "idle"]

(***************************************************************************)
(* Objects: records whose missing keys are simply not in the domain.       *)
(***************************************************************************)
Has(obj, k) == k \in DOMAIN obj
Del(obj, k) == [x \in DOMAIN obj \ {k} |-> obj[x]]
Put(obj, k, v) == [x \in DOMAIN obj \cup {k} |-> IF x = k THEN v ELSE obj[x]]
\* JavaScript truthiness of a request string
Truthy(s) == s # Absent

(***************************************************************************)
(* Mongoose documents.  A document in memory is                            *)
(*   [_id, isNew, _plainPassword, f, modified, pushed]                     *)
(* f: the values of the schema paths that are set, modified: the paths     *)
(* isModified() reports, pushed: array elements pushed since the load.     *)
(***************************************************************************)
NoPush == [evidenceFiles |-> <<>>, comments |-> <<>>, history |-> <<>>]

\* new Report(fields): the schema defaults, then the fields passed; only the
\* passed fields count as modified.
NewDocument(fields) ==
  [_id |-> NoId, isNew |-> TRUE, _plainPassword |-> EmptyString,
   f |-> [x \in DOMAIN fields \cup {"status", "isResolved", "comments", "history"} |->
            IF x \in DOMAIN fields THEN fields[x]
            ELSE CASE x = "status" -> "pending"
                   [] x = "isResolved" -> FALSE
                   [] OTHER -> <<>>],
   modified |-> DOMAIN fields,
   pushed |-> NoPush]

\* A stored report hydrated by a query.  select: false drops the password
\* unless the query asks for it with select("+password").
Hydrate(store, id, withPassword) ==
  [_id |-> id, isNew |-> FALSE, _plainPassword |-> EmptyString,
   f |-> IF withPassword THEN store[id] ELSE Del(store[id], "password"),
   modified |-> {}, pushed |-> NoPush]

\* doc.path = v: a path is marked modified only when its value changes.
SetPath(doc, path, v) ==
  IF Has(doc.f, path) /\ doc.f[path] = v THEN doc
  ELSE [doc EXCEPT !.f = Put(@, path, v), !.modified = @ \cup {path}]

\* doc.array.push(...elems)
PushPath(doc, path, elems) ==
  [doc EXCEPT !.f[path] = @ \o elems, !.pushed[path] = @ \o elems]

\* pre("save") #1: the caseID, when the document has none.
CaseIDHook(doc, count, suffix) ==
  IF Has(doc.f, "caseID") THEN doc
  ELSE SetPath(doc, "caseID", [prefix |-> "LAG", number |-> count + 1, suffix |-> suffix])

\* Faulty PasswordHook: the lookup digest taken of the hex string before
\* toUpperCase().
PasswordHookKeyBeforeUpperCase(doc, n, salt) ==
  IF ~doc.isNew THEN doc
  ELSE LET plainPassword == GeneratePlainPassword(n)
       IN SetPath(SetPath([doc EXCEPT !._plainPassword = plainPassword],
                          "passwordKey", Sha256(ToHex(n))),
                  "password", BcryptHash(plainPassword, salt))

\* Faulty PasswordHook: the plain password also kept in a stored path.
PasswordHookStoringPlain(doc, n, salt) ==
  IF ~doc.isNew THEN doc
  ELSE LET plainPassword == GeneratePlainPassword(n)
       IN SetPath(SetPath(SetPath([doc EXCEPT !._plainPassword = plainPassword],
                                  "passwordKey", Sha256(plainPassword)),
                          "password", BcryptHash(plainPassword, salt)),
                  "plainPassword", plainPassword)

\* Faulty PasswordHook: the guard of the first version of the hook, "skip if
\* the password already exists", which a document loaded without its password
\* passes.
PasswordHookWhenNoPassword(doc, n, salt) ==
  IF Has(doc.f, "password") THEN doc
  ELSE LET plainPassword == GeneratePlainPassword(n)
       IN SetPath(SetPath([doc EXCEPT !._plainPassword = plainPassword],
                          "passwordKey", Sha256(plainPassword)),
                  "password", BcryptHash(plainPassword, salt))

\* Faulty PasswordHook: toUpperCase() left out.
PasswordHookLowerCase(doc, n, salt) ==
  IF ~doc.isNew THEN doc
  ELSE LET plainPassword == ToHex(n)
       IN SetPath(SetPath([doc EXCEPT !._plainPassword = plainPassword],
                          "passwordKey", Sha256(plainPassword)),
                  "password", BcryptHash(plainPassword, salt))

\* pre("save") #2: the case password, only for a new document.
PasswordHook(doc, n, salt) ==
  IF ~doc.isNew THEN doc
  ELSE LET plainPassword == GeneratePlainPassword(n)
       IN SetPath(SetPath([doc EXCEPT !._plainPassword = plainPassword],
                          "passwordKey", Sha256(plainPassword)),
                  "password", BcryptHash(plainPassword, salt))

\* pre("save") #3: a history entry when the status is modified.
HistoryHook(doc) ==
  IF "status" \in doc.modified
  THEN PushPath(doc, "history", <<[status |-> doc.f.status]>>)
  ELSE doc

\* The pre("save") hooks in the order the schema registers them.
PreSave(doc, count, suffix, n, salt) ==
  HistoryHook(PasswordHook(CaseIDHook(doc, count, suffix), n, salt))

\* countDocuments({caseID: /^LAG-<year>/})
CountCaseIDs(store) == Cardinality({i \in 1..Len(store) : Has(store[i], "caseID")})

\* Faulty UniquePaths: unique left off the password and passwordKey paths.
UniquePathsCaseIDOnly == {"caseID"}

\* Faulty UniquePaths: unique left off the caseID path.
UniquePathsNoCaseID == {"password", "passwordKey"}

\* The unique indexes of the collection: caseID, password, passwordKey.
UniquePaths == {"caseID", "password", "passwordKey"}
DuplicateKey(store, f) ==
  \E i \in 1..Len(store) : \E k \in UniquePaths :
     Has(f, k) /\ Has(store[i], k) /\ store[i][k] = f[k]

\* Faulty ApplyUpdate: the save writes the document's arrays whole instead of
\* pushing.
ApplyUpdateOverwrite(stored, doc) ==
  [x \in DOMAIN stored \cup (doc.modified \ DOMAIN NoPush) |->
     IF x \in DOMAIN NoPush
       THEN (IF doc.pushed[x] # <<>> THEN doc.f[x] ELSE stored[x])
     ELSE IF x \in doc.modified THEN doc.f[x]
     ELSE stored[x]]

\* Faulty ApplyUpdate: a pushed array is written as the pushed elements alone.
ApplyUpdateReplacingArrays(stored, doc) ==
  [x \in DOMAIN stored \cup (doc.modified \ DOMAIN NoPush) |->
     IF x \in DOMAIN NoPush
       THEN (IF doc.pushed[x] # <<>> THEN doc.pushed[x] ELSE stored[x])
     ELSE IF x \in doc.modified THEN doc.f[x]
     ELSE stored[x]]

\* The update a save of a loaded document sends: $set of the modified
\* scalar paths, $push of the pushed elements, applied to the stored value.
ApplyUpdate(stored, doc) ==
  [x \in DOMAIN stored \cup (doc.modified \ DOMAIN NoPush) |->
     IF x \in DOMAIN NoPush THEN stored[x] \o doc.pushed[x]
     ELSE IF x \in doc.modified THEN doc.f[x]
     ELSE stored[x]]

SaveExisting(store, doc) ==
  [store EXCEPT ![doc._id] = ApplyUpdate(@, doc)]

(***************************************************************************)
(* Representations sent to callers.                                        *)
(***************************************************************************)
\* doc.toObject()
ToObject(doc) == Put(doc.f, "_id", doc._id)

\* .populate(path): the referenced document's public fields, or null.
Populate(obj, path, coll) ==
  IF ~Has(obj, path) THEN obj
  ELSE Put(obj, path,
           IF obj[path] \in DOMAIN coll
           THEN [_id |-> obj[path], name |-> coll[obj[path]].name]
           ELSE [_id |-> NoId, name |-> Absent])

\* reportSchema.methods.getPublicData
GetPublicData(doc) ==
  LET obj == Del(Del(ToObject(doc), "password"), "passwordKey")
  IN IF doc._plainPassword # EmptyString
     THEN Put(obj, "generatedPassword", doc._plainPassword)
     ELSE obj

\* Faulty ToJSON: the transform forgets the lookup digest.
ToJSONKeepingKey(doc) ==
  LET ret == Del(ToObject(doc), "password")
  IN IF ret.reporterType = "anonymous"
     THEN Del(Del(Del(ret, "reporterName"), "reporterEmail"), "reporterPhone")
     ELSE ret

\* reportSchema.set("toJSON", {transform})
ToJSON(doc) ==
  LET ret == Del(Del(ToObject(doc), "password"), "passwordKey")
  IN IF ret.reporterType = "anonymous"
     THEN Del(Del(Del(ret, "reporterName"), "reporterEmail"), "reporterPhone")
     ELSE ret

\* res.status(status).json({message, data, casePassword}); compares is the
\* number of bcrypt comparisons the request performed.
Response(op, status, message, data, casePassword, compares) ==
  [op |-> op, status |-> status, message |-> message, data |-> data,
   casePassword |-> casePassword, compares |-> compares]

NoResponse == Response("none", 0, "", <<>>, EmptyString, 0)

\* The error middleware's response to an exception thrown by a handler.
ErrorHandler(op) == Response(op, 500, "Server Error", <<>>, EmptyString, 0)

(***************************************************************************)
(* Store-wide counts used by the bounds.                                   *)
(***************************************************************************)
AdminUser == 11
AgencyUser == 12
UnassignedAgency == 21
OtherAgency == 22
UncategorisedCategory == 31
OtherCategory == 32

\* A request starts in the lowest free slot.
FreeSlot(p) == inflight[p] = Idle /\ \A q \in 1..(p - 1) : inflight[q] # Idle

\* One stored report, its array elements and its reassigned references.
WritesOf(r) ==
  1 + Len(r.comments) + Len(r.history) + Len(r.evidenceFiles)
  + (IF r.category = OtherCategory THEN 1 ELSE 0)
  + (IF r.agencyAssigned = OtherAgency THEN 1 ELSE 0)

RECURSIVE SumWrites(_, _)
SumWrites(store, i) ==
  IF i = 0 THEN 0 ELSE WritesOf(store[i]) + SumWrites(store, i - 1)

\* The store once the suspended requests of slots 1..p have written.
RECURSIVE Projected(_)
Projected(p) ==
  IF p = 0 THEN reports
  ELSE IF inflight[p].pc = "idle" THEN Projected(p - 1)
  ELSE IF inflight[p].doc.isNew THEN Append(Projected(p - 1), inflight[p].doc.f)
  ELSE SaveExisting(Projected(p - 1), inflight[p].doc)

\* The bounds leave room for what doc is about to write.
WithinBounds(doc) ==
  LET before == Projected(NumProcs)
      after == IF doc.isNew THEN Append(before, doc.f) ELSE SaveExisting(before, doc)
  IN /\ Len(after) <= MaxReports
     /\ SumWrites(after, Len(after)) <= MaxWork

(***************************************************************************)
(* Initial state: the collections after seedDefaults, with one more        *)
(* category, one more agency, an admin and an agency user of that agency.  *)
(***************************************************************************)
InitStores ==
  /\ reports = <<>>
  /\ categories = [c \in {UncategorisedCategory, OtherCategory} |->
                     [name |-> IF c = UncategorisedCategory THEN "uncategorised" ELSE "vandalism"]]
  /\ agencies = [a \in {UnassignedAgency, OtherAgency} |->
                   IF a = UnassignedAgency THEN [name |-> "unassigned", users |-> {}]
                   ELSE [name |-> "lasepa", users |-> {AgencyUser}]]
  /\ users = [u \in {AdminUser, AgencyUser} |->
                [email |-> IF u = AdminUser THEN "admin@lasg" ELSE "agency@lasg",
                 password |-> BcryptHash("Passw0rd!", GenSalt(0, u)),
                 role |-> IF u = AdminUser THEN "admin" ELSE "agency", active |-> TRUE]]
  /\ inflight = [p \in Procs |-> Idle]
  /\ res = NoResponse
  /\ issued = <<>>
  /\ auditLog = <<>>
  /\ usersCreated = 0

\* The writes to the AuditLog collection succeed and its documents, which no
\* handler reads, are not kept.
Init == InitStores /\ sink = "unobserved"

\* The AuditLog collection is kept, and its writes succeed until they fail.
InitAudit == InitStores /\ sink = "up"

\* await AuditLog.create(entry) throws: the write to the collection fails.
AuditFails == sink = "down"

\* The AuditLog collection after AuditLog.create({action, targetReport}); the
\* description, the address and the timestamps are read by nothing.
AuditCreate(action, targetReport) ==
  IF sink = "up"
  THEN Append(auditLog, [action |-> action, targetReport |-> targetReport])
  ELSE auditLog

\* The writes to the AuditLog collection start failing.
SinkFault ==
  /\ sink = "up"
  /\ sink' = "down"
  /\ UNCHANGED <<reports, categories, agencies, users, inflight, res, issued, auditLog, usersCreated>>

\* Model.findOne({name})
FindByName(coll, name) ==
  IF \E c \in DOMAIN coll : coll[c].name = name
  THEN CHOOSE c \in DOMAIN coll : coll[c].name = name
  ELSE NoId

(***************************************************************************)
(* createReport: POST /api/reports                                         *)
(***************************************************************************)
\* evidenceFiles built from req.files by createReport
CreateEvidence(files) ==
  [i \in 1..Len(files) |-> [filePath |-> files[i].location, fileType |-> files[i].mimetype]]

\* mimetype.split("/")[0]
SplitFirst(str) ==
  IF \E i \in 1..Len(str) : str[i] = "/"
  THEN SubSeq(str, 1, (CHOOSE i \in 1..Len(str) : str[i] = "/" /\ \A j \in 1..(i - 1) : str[j] # "/") - 1)
  ELSE str

\* The fields createReport passes to Report.create; undefined ones are unset.
\* The location, the file names and the timestamps are passed through and read
\* by nothing; they are left out.
CreateFields(body, files) ==
  LET passed == {k \in {"reporterName", "reporterEmail", "reporterPhone"} : Truthy(body[k])}
                  \cup {"title", "description", "reporterType", "category",
                        "agencyAssigned", "evidenceFiles"}
  IN [k \in passed |->
        CASE k = "category" -> FindByName(categories, "uncategorised")
          [] k = "agencyAssigned" -> FindByName(agencies, "unassigned")
          [] k = "evidenceFiles" -> CreateEvidence(files)
          [] OTHER -> body[k]]

\* Faulty CreateValidation: the anonymous check left out.
CreateValidationNoAnonymousCheck(body) ==
  IF ~Truthy(body.title) \/ ~Truthy(body.description)
    THEN "Title and description are required fields."
  ELSE IF body.reporterType \notin {"anonymous", "confidential"}
    THEN "Invalid reporter type. Must be 'anonymous' or 'confidential'."
  ELSE IF body.reporterType = "confidential"
          /\ (~Truthy(body.reporterName) \/ ~Truthy(body.reporterEmail))
    THEN "Confidential reports must include reporter name and email address."
  ELSE ""

\* Faulty CreateValidation: the confidential check left out.
CreateValidationNoConfidentialCheck(body) ==
  IF ~Truthy(body.title) \/ ~Truthy(body.description)
    THEN "Title and description are required fields."
  ELSE IF body.reporterType \notin {"anonymous", "confidential"}
    THEN "Invalid reporter type. Must be 'anonymous' or 'confidential'."
  ELSE IF body.reporterType = "anonymous"
          /\ (Truthy(body.reporterName) \/ Truthy(body.reporterEmail) \/ Truthy(body.reporterPhone))
    THEN "Anonymous reports cannot include name, email, or phone information."
  ELSE ""

\* Faulty CreateValidation: the anonymous check looks at the name only.
CreateValidationAnonymousNameOnly(body) ==
  IF ~Truthy(body.title) \/ ~Truthy(body.description)
    THEN "Title and description are required fields."
  ELSE IF body.reporterType \notin {"anonymous", "confidential"}
    THEN "Invalid reporter type. Must be 'anonymous' or 'confidential'."
  ELSE IF body.reporterType = "anonymous" /\ Truthy(body.reporterName)
    THEN "Anonymous reports cannot include name, email, or phone information."
  ELSE IF body.reporterType = "confidential"
          /\ (~Truthy(body.reporterName) \/ ~Truthy(body.reporterEmail))
    THEN "Confidential reports must include reporter name and email address."
  ELSE ""

\* The validation of createReport: the 400 message, or "" when the body passes.
CreateValidation(body) ==
  IF ~Truthy(body.title) \/ ~Truthy(body.description)
    THEN "Title and description are required fields."
  ELSE IF body.reporterType \notin {"anonymous", "confidential"}
    THEN "Invalid reporter type. Must be 'anonymous' or 'confidential'."
  ELSE IF body.reporterType = "anonymous"
          /\ (Truthy(body.reporterName) \/ Truthy(body.reporterEmail) \/ Truthy(body.reporterPhone))
    THEN "Anonymous reports cannot include name, email, or phone information."
  ELSE IF body.reporterType = "confidential"
          /\ (~Truthy(body.reporterName) \/ ~Truthy(body.reporterEmail))
    THEN "Confidential reports must include reporter name and email address."
  ELSE ""

CreateBodies ==
  [title : Texts, description : Texts, reporterType : ReporterTypes,
   reporterName : Texts, reporterEmail : Texts, reporterPhone : Texts]

\* A handler returns a response without suspending.
Reply(r) ==
  /\ res' = r
  /\ UNCHANGED <<reports, categories, agencies, users, inflight, issued, auditLog, sink, usersCreated>>

\* Validation, the default lookups and the pre-save hooks of Report.create,
\* up to the insert.
CreateReportBegin(p) ==
  /\ FreeSlot(p)
  /\ res = NoResponse
  /\ \E body \in CreateBodies :
       IF CreateValidation(body) # ""
       THEN Reply(Response("createReport", 400, CreateValidation(body), <<>>, EmptyString, 0))
       ELSE \E files \in FileLists, n \in RandomValues, suffix \in Suffixes :
              LET doc == PreSave(NewDocument(CreateFields(body, files)),
                                 CountCaseIDs(reports), suffix, n, GenSalt(p, Len(reports)))
              IN /\ WithinBounds(doc)
                 /\ inflight' = [inflight EXCEPT ![p] =
                      [pc |-> "insert", op |-> "createReport", doc |-> doc,
                       compares |-> 0, password |-> EmptyString]]
                 /\ UNCHANGED <<reports, categories, agencies, users, res, issued, auditLog, sink, usersCreated>>

\* The insert of Report.create, the audit append and the 201 response.
CreateReportSave(p) ==
  /\ inflight[p].pc = "insert"
  /\ res = NoResponse
  /\ inflight' = [inflight EXCEPT ![p] = Idle]
  /\ LET doc == inflight[p].doc
     IN IF DuplicateKey(reports, doc.f)
        THEN /\ res' = ErrorHandler("createReport")
             /\ UNCHANGED <<reports, categories, agencies, users, issued, auditLog, sink, usersCreated>>
        ELSE /\ reports' = Append(reports, doc.f)
             /\ auditLog' = AuditCreate("REPORT_CREATED", Len(reports) + 1)
             /\ IF AuditFails
                THEN /\ res' = ErrorHandler("createReport")
                     /\ issued' = Append(issued, EmptyString)
                ELSE /\ res' = Response("createReport", 201, "Report submitted successfully",
                                        <<GetPublicData([doc EXCEPT !._id = Len(reports) + 1])>>,
                                        doc._plainPassword, 0)
                     /\ issued' = Append(issued, doc._plainPassword)
             /\ UNCHANGED <<categories, agencies, users, sink, usersCreated>>

(***************************************************************************)
(* getReportByPassword: POST /api/reports/follow-up                        *)
(***************************************************************************)
\* Report.findOne(query): the first of the stored reports the query matches
\* (matching: their ids), or NoId.
FindOne(store, matching) ==
  IF matching # {}
  THEN CHOOSE i \in matching : \A j \in matching : i <= j
  ELSE NoId

FollowUpResponse(store, password) ==
  IF password = EmptyString
  THEN Response("getReportByPassword", 400, "Password is required.", <<>>, EmptyString, 0)
  ELSE LET passwordKey == Sha256(password)
           id == FindOne(store, {i \in 1..Len(store) : store[i].passwordKey = passwordKey})
           report == Hydrate(store, id, TRUE)
       IN IF id = NoId
          THEN Response("getReportByPassword", 404, "No report found for this password.",
                        <<>>, EmptyString, 0)
          ELSE IF ~BcryptCompare(password, report.f.password)
          THEN Response("getReportByPassword", 401, "Invalid password.", <<>>, EmptyString, 1)
          ELSE Response("getReportByPassword", 200, "Report retrieved successfully.",
                        <<Populate(Populate(GetPublicData(report), "category", categories),
                                   "agencyAssigned", agencies)>>,
                        EmptyString, 1)

GetReportByPassword ==
  /\ res = NoResponse
  /\ \E password \in Candidates : Reply(FollowUpResponse(reports, password))

(***************************************************************************)
(* addWhistleblowerMessage: POST /api/reports/message                      *)
(***************************************************************************)
\* Faulty ScanMatch: the loop takes the first stored report without looking
\* at the result of matchPassword.
ScanMatchFirstStored(store, password) ==
  FindOne(store, 1..Len(store))

\* The loop over Report.find(): the first report whose credential hash
\* matches, or NoId.
ScanMatch(store, password) ==
  FindOne(store, {i \in 1..Len(store) : BcryptCompare(password, store[i].password)})

\* matchPassword calls the loop makes: up to and including the match.
ScanCompares(store, password) ==
  IF ScanMatch(store, password) = NoId THEN Len(store) ELSE ScanMatch(store, password)

\* evidenceFiles built from req.files by addWhistleblowerMessage
MessageEvidence(files) ==
  [i \in 1..Len(files) |->
     [filePath |-> files[i].location, fileType |-> SplitFirst(files[i].mimetype)]]

\* The early returns of addWhistleblowerMessage: the rejection, or
\* NoResponse when the handler goes on to the save.
MessageRejection(store, password, message) ==
  IF password = EmptyString \/ ~Truthy(message)
  THEN Response("addWhistleblowerMessage", 400, "Password and message are required.",
                <<>>, EmptyString, 0)
  ELSE IF ScanMatch(store, password) = NoId
  THEN Response("addWhistleblowerMessage", 401, "Invalid password. Report not found.",
                <<>>, EmptyString, ScanCompares(store, password))
  ELSE NoResponse

AddWhistleblowerMessageBegin(p) ==
  /\ FreeSlot(p)
  /\ res = NoResponse
  /\ \E password \in Candidates, message \in Texts :
       IF MessageRejection(reports, password, message) # NoResponse
       THEN Reply(MessageRejection(reports, password, message))
       ELSE \E files \in FileLists :
              LET matchedReport == Hydrate(reports, ScanMatch(reports, password), TRUE)
                  withFiles == IF Len(files) > 0
                               THEN PushPath(matchedReport, "evidenceFiles", MessageEvidence(files))
                               ELSE matchedReport
                  doc == PushPath(withFiles, "comments",
                                  <<[role |-> "reporter", message |-> message]>>)
              IN /\ WithinBounds(doc)
                 /\ inflight' = [inflight EXCEPT ![p] =
                      [pc |-> "save", op |-> "addWhistleblowerMessage",
                       doc |-> PreSave(doc, 0, 0, 0, GenSalt(p, Len(reports))),
                       compares |-> ScanCompares(reports, password),
                       password |-> password]]
                 /\ UNCHANGED <<reports, categories, agencies, users, res, issued, auditLog, sink, usersCreated>>

(***************************************************************************)
(* protect / authorize                                                     *)
(***************************************************************************)
\* The user a bearer token names: a user id, or NoId for a missing token.
Tokens == {AdminUser, AgencyUser, NoId}

\* Faulty Protect: the active flag of the user is not looked at.
ProtectIgnoringActive(u, role) ==
  IF u = NoId THEN [status |-> 401, message |-> "Not authorized, token missing!"]
  ELSE IF u \notin DOMAIN users THEN [status |-> 404, message |-> "User no longer exists"]
  ELSE IF users[u].role # role THEN [status |-> 403, message |-> "Access denied: role not authorized"]
  ELSE [status |-> 0, message |-> ""]

\* protect, then authorize(role): the rejection, or status 0 to go on.
Protect(u, role) ==
  IF u = NoId THEN [status |-> 401, message |-> "Not authorized, token missing!"]
  ELSE IF u \notin DOMAIN users THEN [status |-> 404, message |-> "User no longer exists"]
  ELSE IF ~users[u].active THEN [status |-> 403, message |-> "Account is deactivated"]
  ELSE IF users[u].role # role THEN [status |-> 403, message |-> "Access denied: role not authorized"]
  ELSE [status |-> 0, message |-> ""]

Authorized(u, role) == Protect(u, role).status = 0

\* next(new ErrorResponse(message, status)), answered by the error middleware.
ErrorResponse(op, status, message) ==
  Response(op, status, message, <<>>, EmptyString, 0)

\* A request to a protected route that the middleware rejects.
RejectUnauthorized ==
  /\ res = NoResponse
  /\ \E u \in Tokens, role \in {"admin", "agency"} :
       /\ ~Authorized(u, role)
       /\ Reply(ErrorResponse(role, Protect(u, role).status, Protect(u, role).message))

(***************************************************************************)
(* Admin handlers                                                          *)
(***************************************************************************)
BadId == -1   \* a malformed ObjectId
ReportIds == 1..MaxReports \cup {BadId}
Exists(id) == id \in 1..Len(reports)

\* The representation res.json sends for a document, references populated.
Sent(doc) ==
  Populate(Populate(ToJSON(doc), "category", categories), "agencyAssigned", agencies)

\* Suspend a handler at its await report.save().
Suspend(p, op, doc) ==
  /\ WithinBounds(doc)
  /\ inflight' = [inflight EXCEPT ![p] =
       [pc |-> "save", op |-> op, doc |-> PreSave(doc, 0, 0, 0, GenSalt(p, Len(reports))), compares |-> 0,
        password |-> EmptyString]]
  /\ UNCHANGED <<reports, categories, agencies, users, res, issued, auditLog, sink, usersCreated>>

\* The stored reports a list filter matches (matching: their ids), from id i
\* on, newest first (sort createdAt: -1).
RECURSIVE ListReports(_, _)
ListReports(matching, i) ==
  IF i > Len(reports) THEN <<>>
  ELSE ListReports(matching, i + 1)
       \o (IF i \in matching THEN <<Sent(Hydrate(reports, i, FALSE))>> ELSE <<>>)

GetAllReports ==
  \E u \in Tokens, status \in StatusFilters :
    /\ res = NoResponse
    /\ Authorized(u, "admin")
    /\ LET matching == {i \in 1..Len(reports) : status = Absent \/ reports[i].status = status}
       IN Reply(Response("getAllReports", 200, "", ListReports(matching, 1), EmptyString, 0))

GetUnassignedReports ==
  \E u \in Tokens :
    /\ res = NoResponse
    /\ Authorized(u, "admin")
    /\ LET defaultAgency == FindByName(agencies, "unassigned")
           matching == {i \in 1..Len(reports) : reports[i].agencyAssigned = defaultAgency}
       IN IF defaultAgency = NoId
          THEN Reply(Response("getUnassignedReports", 404,
                              "Default 'unassigned' agency not found", <<>>, EmptyString, 0))
          ELSE Reply(Response("getUnassignedReports", 200, "", ListReports(matching, 1),
                              EmptyString, 0))

GetReportById ==
  \E u \in Tokens, id \in ReportIds :
    /\ res = NoResponse
    /\ Authorized(u, "admin")
    /\ IF id = BadId
       THEN Reply(Response("getReportById", 400, "Invalid report ID format.", <<>>, EmptyString, 0))
       ELSE IF ~Exists(id)
       THEN Reply(Response("getReportById", 404, "Report not found.", <<>>, EmptyString, 0))
       ELSE Reply(Response("getReportById", 200, "Report retrieved successfully.",
                           <<Sent(Hydrate(reports, id, FALSE))>>, EmptyString, 0))

CategoryIds == {UncategorisedCategory, OtherCategory, NoId}
AgencyIds == {UnassignedAgency, OtherAgency, NoId}

UpdateReportCategoryBegin(p) ==
  /\ FreeSlot(p)
  /\ res = NoResponse
  /\ \E u \in Tokens, id \in ReportIds, categoryId \in CategoryIds :
       /\ Authorized(u, "admin")
       /\ IF id = BadId
          THEN Reply(ErrorHandler("updateReportCategory"))
          ELSE IF ~Exists(id)
          THEN Reply(Response("updateReportCategory", 404, "Report not found", <<>>, EmptyString, 0))
          ELSE IF categoryId \notin DOMAIN categories
          THEN Reply(Response("updateReportCategory", 404, "Category not found", <<>>, EmptyString, 0))
          ELSE Suspend(p, "updateReportCategory",
                       SetPath(Hydrate(reports, id, FALSE), "category", categoryId))

AssignReportToAgencyBegin(p) ==
  /\ FreeSlot(p)
  /\ res = NoResponse
  /\ \E u \in Tokens, id \in ReportIds, agencyId \in AgencyIds :
       /\ Authorized(u, "admin")
       /\ IF id = BadId
          THEN Reply(ErrorHandler("assignReportToAgency"))
          ELSE IF ~Exists(id)
          THEN Reply(Response("assignReportToAgency", 404, "Report not found", <<>>, EmptyString, 0))
          ELSE IF agencyId \notin DOMAIN agencies
          THEN Reply(Response("assignReportToAgency", 404, "Agency not found", <<>>, EmptyString, 0))
          ELSE Suspend(p, "assignReportToAgency",
                       SetPath(Hydrate(reports, id, FALSE), "agencyAssigned", agencyId))

\* Faulty ApplyStatus: closing a report marks it resolved.
ApplyStatusClosedResolves(report, status) ==
  LET flagged == IF status \in {"resolved", "closed"} THEN SetPath(report, "isResolved", TRUE)
                 ELSE SetPath(report, "isResolved", FALSE)
  IN SetPath(flagged, "status", status)

\* The isResolved rule of updateReportStatus, then the status itself.
ApplyStatus(report, status) ==
  LET flagged == IF status = "resolved" THEN SetPath(report, "isResolved", TRUE)
                 ELSE IF status = "closed" THEN report
                 ELSE SetPath(report, "isResolved", FALSE)
  IN SetPath(flagged, "status", status)

\* updateReportStatus up to its save, req.body.status drawn from requested.
UpdateReportStatusFrom(p, requested) ==
  /\ FreeSlot(p)
  /\ res = NoResponse
  /\ \E u \in Tokens, id \in ReportIds, status \in requested :
       /\ Authorized(u, "admin")
       /\ IF id = BadId
          THEN Reply(Response("updateReportStatus", 400, "Invalid report ID.", <<>>, EmptyString, 0))
          ELSE IF status \notin Statuses
          THEN Reply(Response("updateReportStatus", 400,
                              "Invalid status. Allowed values: pending, under review, resolved, closed",
                              <<>>, EmptyString, 0))
          ELSE IF ~Exists(id)
          THEN Reply(Response("updateReportStatus", 404, "Report not found.", <<>>, EmptyString, 0))
          ELSE Suspend(p, "updateReportStatus",
                       ApplyStatus(Hydrate(reports, id, FALSE), status))

UpdateReportStatusBegin(p) == UpdateReportStatusFrom(p, Statuses \cup {Absent})

AddAdminMessageBegin(p) ==
  /\ FreeSlot(p)
  /\ res = NoResponse
  /\ \E u \in Tokens, reportId \in ReportIds, message \in Texts :
       /\ Authorized(u, "admin")
       /\ IF reportId = BadId
          THEN Reply(ErrorHandler("addAdminMessage"))
          ELSE IF ~Exists(reportId)
          THEN Reply(ErrorResponse("addAdminMessage", 404, "Report not found."))
          ELSE IF ~Truthy(message)
          THEN Reply(ErrorResponse("addAdminMessage", 400, "Message content is required."))
          ELSE Suspend(p, "addAdminMessage",
                       PushPath(Hydrate(reports, reportId, FALSE), "comments",
                                <<[role |-> "admin", message |-> message]>>))

\* deleteCategory: DELETE /api/admin/categories/:id
DeleteCategory ==
  \E u \in Tokens, id \in CategoryIds \cup {BadId} :
    /\ res = NoResponse
    /\ Authorized(u, "admin")
    /\ IF id = BadId
       THEN Reply(Response("deleteCategory", 400, "Invalid category ID format.", <<>>, EmptyString, 0))
       ELSE IF id \notin DOMAIN categories
       THEN Reply(Response("deleteCategory", 404, "Category not found.", <<>>, EmptyString, 0))
       ELSE /\ categories' = [c \in DOMAIN categories \ {id} |-> categories[c]]
            /\ res' = Response("deleteCategory", 200, "Category deleted successfully.",
                               <<>>, EmptyString, 0)
            /\ UNCHANGED <<reports, agencies, users, inflight, issued, auditLog, sink, usersCreated>>

\* deleteAgency: DELETE /api/admin/agencies/:id
DeleteAgency ==
  \E u \in Tokens, id \in AgencyIds \cup {BadId} :
    /\ res = NoResponse
    /\ Authorized(u, "admin")
    /\ IF id = BadId
       THEN Reply(Response("deleteAgency", 400, "Invalid agency ID format.", <<>>, EmptyString, 0))
       ELSE IF id \notin DOMAIN agencies
       THEN Reply(Response("deleteAgency", 404, "Agency not found.", <<>>, EmptyString, 0))
       ELSE /\ agencies' = [a \in DOMAIN agencies \ {id} |-> agencies[a]]
            /\ res' = Response("deleteAgency", 200, "Agency deleted successfully.",
                               <<>>, EmptyString, 0)
            /\ UNCHANGED <<reports, categories, users, inflight, issued, auditLog, sink, usersCreated>>

(***************************************************************************)
(* Agency handlers                                                         *)
(***************************************************************************)
\* Agency.findOne({users: userId})
AgencyOfUser(u) ==
  IF \E a \in DOMAIN agencies : u \in agencies[a].users
  THEN CHOOSE a \in DOMAIN agencies : u \in agencies[a].users
  ELSE NoId

GetAgencyReports ==
  \E u \in Tokens, status \in StatusFilters :
    /\ res = NoResponse
    /\ Authorized(u, "agency")
    /\ LET agency == AgencyOfUser(u)
           matching == {i \in 1..Len(reports) :
                          /\ reports[i].agencyAssigned = agency
                          /\ (status = Absent \/ reports[i].status = status)}
       IN IF agency = NoId
          THEN Reply(ErrorResponse("getAgencyReports", 404, "No agency linked to this user."))
          ELSE Reply(Response("getAgencyReports", 200, "", ListReports(matching, 1),
                              EmptyString, 0))

\* What getAgencyReportById answers to user u asking for report id.
GetAgencyReportByIdResponse(u, id) ==
  LET agency == AgencyOfUser(u)
  IN IF agency = NoId
     THEN ErrorResponse("getAgencyReportById", 403, "You are not associated with any agency")
     ELSE IF id = BadId
     THEN ErrorHandler("getAgencyReportById")
     ELSE IF ~Exists(id) \/ reports[id].agencyAssigned # agency
     THEN ErrorResponse("getAgencyReportById", 404,
                        "Report not found or not assigned to your agency")
     ELSE Response("getAgencyReportById", 200, "",
                   <<Sent(Hydrate(reports, id, FALSE))>>, EmptyString, 0)

GetAgencyReportById ==
  \E u \in Tokens, id \in ReportIds :
    /\ res = NoResponse
    /\ Authorized(u, "agency")
    /\ Reply(GetAgencyReportByIdResponse(u, id))

\* Faulty AddAgencyMessageRejection: the check that the report belongs to
\* the caller's agency left out.
AddAgencyMessageRejectionNoOwnerCheck(u, reportId, message) ==
  IF reportId = BadId
  THEN ErrorHandler("addAgencyMessage")
  ELSE IF ~Exists(reportId)
  THEN ErrorResponse("addAgencyMessage", 404, "Report not found.")
  ELSE IF ~Truthy(message)
  THEN ErrorResponse("addAgencyMessage", 400, "Message content is required.")
  ELSE IF AgencyOfUser(u) = NoId
  THEN ErrorResponse("addAgencyMessage", 404, "Agency not found for this user.")
  ELSE NoResponse

\* The early exits of addAgencyMessage for user u: the rejection, or
\* NoResponse when the handler goes on to the push and the save.
AddAgencyMessageRejection(u, reportId, message) ==
  IF reportId = BadId
  THEN ErrorHandler("addAgencyMessage")
  ELSE IF ~Exists(reportId)
  THEN ErrorResponse("addAgencyMessage", 404, "Report not found.")
  ELSE IF ~Truthy(message)
  THEN ErrorResponse("addAgencyMessage", 400, "Message content is required.")
  ELSE IF AgencyOfUser(u) = NoId
  THEN ErrorResponse("addAgencyMessage", 404, "Agency not found for this user.")
  ELSE IF reports[reportId].agencyAssigned \notin DOMAIN agencies
          \/ reports[reportId].agencyAssigned # AgencyOfUser(u)
  THEN ErrorResponse("addAgencyMessage", 403,
                     "Unauthorized: This report is not assigned to your agency.")
  ELSE NoResponse

AddAgencyMessageBegin(p) ==
  /\ FreeSlot(p)
  /\ res = NoResponse
  /\ \E u \in Tokens, reportId \in ReportIds, message \in Texts :
       /\ Authorized(u, "agency")
       /\ IF AddAgencyMessageRejection(u, reportId, message) # NoResponse
          THEN Reply(AddAgencyMessageRejection(u, reportId, message))
          ELSE Suspend(p, "addAgencyMessage",
                       PushPath(Hydrate(reports, reportId, FALSE), "comments",
                                <<[role |-> "agency", message |-> message]>>))

\* The route binds :reportId while the handler reads req.params.id, which is
\* undefined; findById(undefined) queries {_id: null} and finds nothing.
\* The handler also compares the report's agency with req.user.id, the id of
\* the user.  The early exits of updateAgencyReportStatus for the request of
\* user u on /:reportId/status: the rejection, or NoResponse when the handler
\* goes on to the save.
UpdateAgencyReportStatusRejection(u, reportId, status) ==
  LET id == NoId
      agencyId == u
  IN IF ~Truthy(status)
     THEN ErrorResponse("updateAgencyReportStatus", 400, "Status is required")
     ELSE IF ~Exists(id)
     THEN ErrorResponse("updateAgencyReportStatus", 404, "Report not found")
     ELSE IF reports[id].agencyAssigned = NoId \/ reports[id].agencyAssigned # agencyId
     THEN ErrorResponse("updateAgencyReportStatus", 403,
                        "You are not authorized to update this report")
     ELSE NoResponse

UpdateAgencyReportStatusBegin(p) ==
  /\ FreeSlot(p)
  /\ res = NoResponse
  /\ \E u \in Tokens, reportId \in ReportIds, status \in Statuses \cup {Absent} :
       /\ Authorized(u, "agency")
       /\ IF UpdateAgencyReportStatusRejection(u, reportId, status) # NoResponse
          THEN Reply(UpdateAgencyReportStatusRejection(u, reportId, status))
          ELSE Suspend(p, "updateAgencyReportStatus",
                       SetPath(Hydrate(reports, NoId, FALSE), "status", status))

(***************************************************************************)
(* await report.save() of a loaded report, and the handler's response.     *)
(***************************************************************************)
\* What the handler sends once its save has returned.
SaveResponse(op, doc, compares) ==
  CASE op = "addWhistleblowerMessage" ->
         Response(op, 201, "Message added successfully.",
                  <<[comments |-> doc.f.comments, evidenceFiles |-> doc.f.evidenceFiles]>>,
                  EmptyString, compares)
    [] op = "addAdminMessage" ->
         Response(op, 201, "Admin message added successfully.",
                  <<[comments |-> doc.f.comments]>>, EmptyString, compares)
    [] op = "addAgencyMessage" ->
         Response(op, 201, "Agency message added successfully.",
                  <<[comments |-> doc.f.comments]>>, EmptyString, compares)
    [] op = "updateReportCategory" ->
         Response(op, 200, "Category assigned successfully", <<Sent(doc)>>, EmptyString, compares)
    [] op = "assignReportToAgency" ->
         Response(op, 200, "Agency assigned successfully", <<Sent(doc)>>, EmptyString, compares)
    [] op = "updateReportStatus" ->
         Response(op, 200, "Report status updated successfully.", <<Sent(doc)>>,
                  EmptyString, compares)
    [] OTHER ->
         Response(op, 200, "Status updated successfully", <<Sent(doc)>>, EmptyString, compares)

\* The action a handler names in the AuditLog entry it creates after its
\* save; Absent for a handler that creates none.
AuditAction(op) ==
  CASE op = "addWhistleblowerMessage" -> "REPORT_UPDATED_BY_REPORTER"
    [] op = "addAdminMessage" -> "REPORT_UPDATED_BY_ADMIN"
    [] op = "addAgencyMessage" -> "REPORT_UPDATED_BY_AGENCY"
    [] op = "updateReportCategory" -> "CATEGORY_ASSIGNED"
    [] op = "assignReportToAgency" -> "AGENCY_ASSIGNED"
    [] op = "updateReportStatus" -> "STATUS_UPDATED"
    [] OTHER -> Absent

\* The save of a loaded report: the update reaches the store, the handler
\* creates its AuditLog entry and answers.
ReportSave(p) ==
  /\ inflight[p].pc = "save"
  /\ res = NoResponse
  /\ inflight' = [inflight EXCEPT ![p] = Idle]
  /\ reports' = SaveExisting(reports, inflight[p].doc)
  /\ IF AuditAction(inflight[p].op) = Absent
     THEN /\ res' = SaveResponse(inflight[p].op, inflight[p].doc, inflight[p].compares)
          /\ UNCHANGED auditLog
     ELSE /\ auditLog' = AuditCreate(AuditAction(inflight[p].op), inflight[p].doc._id)
          /\ res' = IF AuditFails THEN ErrorHandler(inflight[p].op)
                    ELSE SaveResponse(inflight[p].op, inflight[p].doc, inflight[p].compares)
  /\ UNCHANGED <<categories, agencies, users, issued, sink, usersCreated>>

\* The caller receives the response.
Deliver ==
  /\ res # NoResponse
  /\ res' = NoResponse
  /\ UNCHANGED <<reports, categories, agencies, users, inflight, issued, auditLog, sink, usersCreated>>

\* The reporter-facing routes, requests interleaving at their awaits.
Next ==
  \/ \E p \in Procs : CreateReportBegin(p)
  \/ \E p \in Procs : CreateReportSave(p)
  \/ GetReportByPassword
  \/ \E p \in Procs : AddWhistleblowerMessageBegin(p)
  \/ \E p \in Procs : ReportSave(p)
  \/ Deliver

Spec == Init /\ [][Next]_vars

(***************************************************************************)
(* User management (admin) and login                                       *)
(***************************************************************************)
MissingAgency == 23   \* a well-formed ObjectId of no agency
UserIds == {AdminUser, AgencyUser} \cup (AgencyUser + 1)..(AgencyUser + MaxNewUsers)
UserTokens == UserIds \cup {NoId}

\* The password validator of UserSchema: eight characters or more with an
\* uppercase letter, a digit and a special character.
PasswordValid(password) == password = "Passw0rd!"

\* The bodies of createUser; agencyId is missing (NoId), an agency's, or a
\* well-formed id of no agency.
UserBodies ==
  [email : {Absent, "agency@lasg", "new@lasg"}, username : Texts,
   password : {Absent, "weak", "Passw0rd!"}, role : {Absent, "admin", "agency", "other"},
   agencyId : {NoId, OtherAgency, MissingAgency}]

\* User.find({role: "admin"})
Admins(store) == {u \in DOMAIN store : store[u].role = "admin"}

\* A handler of the user controller suspended at an await, with its locals.
SuspendUser(p, op, locals) ==
  /\ inflight' = [inflight EXCEPT ![p] =
       [pc |-> "user", op |-> op, doc |-> locals, compares |-> 0, password |-> EmptyString]]
  /\ UNCHANGED <<reports, categories, agencies, users, res, issued, auditLog, sink, usersCreated>>

\* User documents being created by suspended requests.
CreatingUsers == Cardinality({p \in Procs : inflight[p].pc = "user" /\ inflight[p].op = "createUser"})

\* The early exits of createUser: the rejection, or NoResponse when the
\* handler goes on to User.create.
CreateUserRejection(caller, body) ==
  IF ~Truthy(body.email) \/ ~Truthy(body.username) \/ ~Truthy(body.password)
  THEN Response("createUser", 400, "Email, username, and password are required",
                <<>>, EmptyString, 0)
  ELSE IF users[caller].role # "admin"
  THEN Response("createUser", 403, "Only Super Admins can create new users", <<>>, EmptyString, 0)
  ELSE IF Truthy(body.role) /\ body.role \notin {"admin", "agency"}
  THEN Response("createUser", 400, "Invalid role specified. Must be either admin or agency.",
                <<>>, EmptyString, 0)
  ELSE IF body.role = "admin" /\ Admins(users) # {}
  THEN Response("createUser", 400, "An admin user already exists", <<>>, EmptyString, 0)
  ELSE NoResponse

\* createUser: POST /api/admin/users, up to User.create.
CreateUserBegin(p) ==
  /\ FreeSlot(p)
  /\ res = NoResponse
  /\ \E u \in UserTokens, body \in UserBodies :
       /\ Authorized(u, "admin")
       /\ IF CreateUserRejection(u, body) # NoResponse
          THEN Reply(CreateUserRejection(u, body))
          ELSE /\ usersCreated + CreatingUsers < MaxNewUsers
               /\ SuspendUser(p, "createUser", body)

\* What User.create throws for: a schema validator, the only-one-admin check
\* of the pre-save hook, the unique index on email.
UserCreateFails(store, doc) ==
  \/ ~PasswordValid(doc.password)
  \/ doc.role = "admin" /\ Admins(store) # {}
  \/ \E u \in DOMAIN store : store[u].email = doc.email

\* User.create, then the link to the agency and the 201 response.
CreateUserSave(p) ==
  /\ inflight[p].pc = "user"
  /\ inflight[p].op = "createUser"
  /\ res = NoResponse
  /\ inflight' = [inflight EXCEPT ![p] = Idle]
  /\ LET body == inflight[p].doc
         id == AgencyUser + usersCreated + 1
         newUser == [email |-> body.email, password |-> BcryptHash(body.password, GenSalt(p, id)),
                     role |-> IF Truthy(body.role) THEN body.role ELSE "agency", active |-> TRUE]
         linked == newUser.role = "agency" /\ body.agencyId # NoId
         created == [u \in DOMAIN users \cup {id} |-> IF u = id THEN newUser ELSE users[u]]
     IN IF UserCreateFails(users, [newUser EXCEPT !.password = body.password])
        THEN /\ res' = ErrorHandler("createUser")
             /\ UNCHANGED <<users, agencies, usersCreated>>
        ELSE /\ users' = created
             /\ usersCreated' = usersCreated + 1
             /\ IF ~linked
                THEN /\ agencies' = agencies
                     /\ res' = Response("createUser", 201, "User created successfully",
                                        <<[id |-> id, email |-> newUser.email, role |-> newUser.role,
                                           agencyAssigned |-> body.agencyId,
                                           active |-> newUser.active]>>,
                                        EmptyString, 0)
                ELSE IF body.agencyId \notin DOMAIN agencies
                THEN /\ agencies' = agencies
                     /\ res' = Response("createUser", 404, "Agency not found", <<>>, EmptyString, 0)
                ELSE /\ agencies' = [agencies EXCEPT ![body.agencyId].users = @ \cup {id}]
                     /\ res' = Response("createUser", 201, "User created successfully",
                                        <<[id |-> id, email |-> newUser.email, role |-> newUser.role,
                                           agencyAssigned |-> body.agencyId,
                                           active |-> newUser.active]>>,
                                        EmptyString, 0)
  /\ UNCHANGED <<reports, categories, issued, auditLog, sink>>

\* The bodies of updateUser: a role, an active flag, or both.
UserUpdates ==
  {[role |-> "admin"], [role |-> "agency"], [active |-> TRUE], [active |-> FALSE],
   [role |-> "agency", active |-> FALSE]}

\* What the select of updateUser keeps of the updated user, when there is
\* one.
SelectedUser(store, id) ==
  IF id \in DOMAIN store
  THEN <<[_id |-> id, email |-> store[id].email, role |-> store[id].role,
          active |-> store[id].active]>>
  ELSE <<>>

\* The early exits of updateUser: the rejection, or NoResponse when the
\* handler goes on to findByIdAndUpdate.
UpdateUserRejection(id, updates) ==
  IF id \notin DOMAIN users
  THEN ErrorResponse("updateUser", 404, "User not found")
  ELSE IF users[id].role = "admin" /\ Has(updates, "role") /\ updates.role = "agency"
          /\ Cardinality(Admins(users)) = 1
  THEN ErrorResponse("updateUser", 403, "Cannot downgrade the only admin")
  ELSE NoResponse

\* updateUser: PUT /api/admin/users/:id, up to findByIdAndUpdate.
UpdateUserBegin(p) ==
  /\ FreeSlot(p)
  /\ res = NoResponse
  /\ \E u \in UserTokens, id \in UserIds, updates \in UserUpdates :
       /\ Authorized(u, "admin")
       /\ IF UpdateUserRejection(id, updates) # NoResponse
          THEN Reply(UpdateUserRejection(id, updates))
          ELSE SuspendUser(p, "updateUser", [_id |-> id, updates |-> updates])

\* User.findByIdAndUpdate(id, updates) and the 200 response.
UpdateUserApply(p) ==
  /\ inflight[p].pc = "user"
  /\ inflight[p].op = "updateUser"
  /\ res = NoResponse
  /\ inflight' = [inflight EXCEPT ![p] = Idle]
  /\ LET id == inflight[p].doc._id
         updates == inflight[p].doc.updates
         updated == IF id \in DOMAIN users
                    THEN [users EXCEPT ![id] =
                            [k \in DOMAIN @ |-> IF Has(updates, k) THEN updates[k] ELSE @[k]]]
                    ELSE users
     IN /\ users' = updated
        /\ res' = Response("updateUser", 200, "User updated successfully",
                           SelectedUser(updated, id), EmptyString, 0)
  /\ UNCHANGED <<reports, categories, agencies, issued, auditLog, sink, usersCreated>>

\* The early exits of deleteUser: the rejection, or NoResponse when the
\* handler goes on to deleteOne.
DeleteUserRejection(id) ==
  IF id \notin DOMAIN users
  THEN ErrorResponse("deleteUser", 404, "User not found")
  ELSE IF users[id].role = "admin" /\ Cardinality(Admins(users)) = 1
  THEN ErrorResponse("deleteUser", 403, "Cannot delete the only admin account")
  ELSE NoResponse

\* deleteUser: DELETE /api/admin/users/:id, up to deleteOne.
DeleteUserBegin(p) ==
  /\ FreeSlot(p)
  /\ res = NoResponse
  /\ \E u \in UserTokens, id \in UserIds :
       /\ Authorized(u, "admin")
       /\ IF DeleteUserRejection(id) # NoResponse
          THEN Reply(DeleteUserRejection(id))
          ELSE SuspendUser(p, "deleteUser", [_id |-> id])

\* user.deleteOne() and the 200 response.
DeleteUserApply(p) ==
  /\ inflight[p].pc = "user"
  /\ inflight[p].op = "deleteUser"
  /\ res = NoResponse
  /\ inflight' = [inflight EXCEPT ![p] = Idle]
  /\ users' = [u \in DOMAIN users \ {inflight[p].doc._id} |-> users[u]]
  /\ res' = Response("deleteUser", 200, "User deleted successfully", <<>>, EmptyString, 0)
  /\ UNCHANGED <<reports, categories, agencies, issued, auditLog, sink, usersCreated>>

\* login: POST /api/auth/login.  The access token it returns names the user.
LoginResponse(email, password) ==
  LET matching == {u \in DOMAIN users : users[u].email = email}
      user == IF matching # {} THEN CHOOSE u \in matching : TRUE ELSE NoId
  IN IF ~Truthy(email) \/ ~Truthy(password)
     THEN ErrorResponse("login", 400, "Please provide an email and password")
     ELSE IF user = NoId
     THEN ErrorResponse("login", 401, "Account not found")
     ELSE IF ~users[user].active
     THEN ErrorResponse("login", 403, "Account is inactive. Contact admin.")
     ELSE IF ~BcryptCompare(password, users[user].password)
     THEN Response("login", 401, "Invalid credentials", <<>>, EmptyString, 1)
     ELSE Response("login", 200, "",
                   <<[id |-> user, email |-> users[user].email, role |-> users[user].role]>>,
                   EmptyString, 1)

LoginEmails == {Absent, "admin@lasg", "agency@lasg", "new@lasg"}
LoginPasswords == {Absent, "Passw0rd!", "wrong"}

Login ==
  /\ res = NoResponse
  /\ \E email \in LoginEmails, password \in LoginPasswords :
       Reply(LoginResponse(email, password))

\* User.find(): the stored users among ids, in _id order, without their
\* password (select: false).
RECURSIVE ListUsers(_, _)
ListUsers(store, ids) ==
  IF ids = {} THEN <<>>
  ELSE LET first == CHOOSE u \in ids : \A v \in ids : u <= v
       IN SelectedUser(store, first) \o ListUsers(store, ids \ {first})

\* getUsers: GET /api/admin/users
GetUsers ==
  \E u \in UserTokens :
    /\ res = NoResponse
    /\ Authorized(u, "admin")
    /\ Reply(Response("getUsers", 200, "Fetched all users successfully",
                      ListUsers(users, DOMAIN users), EmptyString, 0))

\* A request with the token of any user, to a route of either router, that
\* the middleware rejects.
RejectUser ==
  /\ res = NoResponse
  /\ \E u \in UserTokens, role \in {"admin", "agency"} :
       /\ ~Authorized(u, role)
       /\ Reply(ErrorResponse(role, Protect(u, role).status, Protect(u, role).message))

\* Every route, one request at a time.
Quiet == \A p \in Procs : inflight[p] = Idle

NextAll ==
  \/ CreateReportBegin(1)
  \/ CreateReportSave(1)
  \/ Quiet /\ GetReportByPassword
  \/ AddWhistleblowerMessageBegin(1)
  \/ Quiet /\ RejectUnauthorized
  \/ Quiet /\ GetAllReports
  \/ Quiet /\ GetUnassignedReports
  \/ Quiet /\ GetReportById
  \/ UpdateReportCategoryBegin(1)
  \/ AssignReportToAgencyBegin(1)
  \/ UpdateReportStatusBegin(1)
  \/ AddAdminMessageBegin(1)
  \/ Quiet /\ GetAgencyReports
  \/ Quiet /\ GetAgencyReportById
  \/ AddAgencyMessageBegin(1)
  \/ UpdateAgencyReportStatusBegin(1)
  \/ ReportSave(1)
  \/ Deliver

SpecAll == Init /\ [][NextAll]_vars

\* The reporter's and the admin's comment appends, requests interleaving at
\* their awaits.
NextComments ==
  \/ \E p \in Procs : CreateReportBegin(p)
  \/ \E p \in Procs : CreateReportSave(p)
  \/ \E p \in Procs : AddWhistleblowerMessageBegin(p)
  \/ \E p \in Procs : AddAdminMessageBegin(p)
  \/ \E p \in Procs : ReportSave(p)
  \/ Deliver

SpecComments == Init /\ [][NextComments]_vars

\* The admin's status updates, to pending and to resolved, requests
\* interleaving at their awaits.
NextStatus ==
  \/ \E p \in Procs : CreateReportBegin(p)
  \/ \E p \in Procs : CreateReportSave(p)
  \/ \E p \in Procs : UpdateReportStatusFrom(p, {"pending", "resolved"})
  \/ \E p \in Procs : ReportSave(p)
  \/ Deliver

SpecStatus == Init /\ [][NextStatus]_vars

\* Creation and the admin's deletions of categories and agencies, one
\* request at a time.
NextCatalog ==
  \/ CreateReportBegin(1)
  \/ CreateReportSave(1)
  \/ Quiet /\ GetUnassignedReports
  \/ Quiet /\ DeleteCategory
  \/ Quiet /\ DeleteAgency
  \/ Deliver

SpecCatalog == Init /\ [][NextCatalog]_vars

\* The status updates of the admin route, to under review and to resolved,
\* and of the agency route, requests interleaving at their awaits.
NextFlags ==
  \/ CreateReportBegin(1)
  \/ CreateReportSave(1)
  \/ \E p \in Procs : UpdateReportStatusFrom(p, {"under review", "resolved"})
  \/ \E p \in Procs : UpdateAgencyReportStatusBegin(p)
  \/ \E p \in Procs : ReportSave(p)
  \/ Deliver

SpecFlags == Init /\ [][NextFlags]_vars

\* Creation, the admin's comments and the admin's deletion of categories,
\* one request at a time, with the AuditLog collection kept and its writes
\* liable to fail.
NextAudit ==
  \/ CreateReportBegin(1)
  \/ CreateReportSave(1)
  \/ AddAdminMessageBegin(1)
  \/ ReportSave(1)
  \/ Quiet /\ DeleteCategory
  \/ SinkFault
  \/ Deliver

SpecAudit == InitAudit /\ [][NextAudit]_vars

\* User management, login and one route of each router, requests
\* interleaving at their awaits.
NextUsers ==
  \/ \E p \in Procs : CreateUserBegin(p)
  \/ \E p \in Procs : CreateUserSave(p)
  \/ \E p \in Procs : UpdateUserBegin(p)
  \/ \E p \in Procs : UpdateUserApply(p)
  \/ \E p \in Procs : DeleteUserBegin(p)
  \/ \E p \in Procs : DeleteUserApply(p)
  \/ Login
  \/ GetUsers
  \/ GetAgencyReports
  \/ RejectUser
  \/ Deliver

SpecUsers == Init /\ [][NextUsers]_vars

(***************************************************************************)
(* Properties                                                              *)
(***************************************************************************)
Ids == 1..Len(reports)
IdentityPaths == {"reporterName", "reporterEmail", "reporterPhone"}

\* C1: in every state and for every candidate secret s, the follow-up
\* returns a report exactly when s is the password sent to that report's
\* creator, the report returned is that one, and a secret never issued gets a
\* rejection without data.
C1_FollowUpExact ==
  \A s \in Candidates :
    LET r == FollowUpResponse(reports, s)
    IN /\ \A i \in Ids : (r.status = 200 /\ r.data[1]._id = i) <=> s = issued[i]
       /\ r.status = 200 =>
            /\ Len(r.data) = 1
            /\ r.data[1].caseID = reports[r.data[1]._id].caseID
            /\ r.data[1].comments = reports[r.data[1]._id].comments
       /\ (\A i \in Ids : issued[i] # s) => r.status \in {400, 401, 404} /\ r.data = <<>>

C1_Witness ==
  /\ Len(reports) = 2
  /\ res.op = "getReportByPassword"
  /\ res.status = 200
  /\ res.data[1]._id = 2

\* A response that rejects a candidate secret because it verifies against no
\* report.
IsVerifyRejection(r) ==
  /\ r.op \in {"getReportByPassword", "addWhistleblowerMessage"}
  /\ r.status \in {401, 404}

\* C2: the rejection of a secret that fails verification is the same
\* response, status and message, on the follow-up and on the message route.
C2_UniformRejection ==
  \A s \in Candidates \ {EmptyString} :
    LET f == FollowUpResponse(reports, s)
        m == MessageRejection(reports, s, "text")
    IN (IsVerifyRejection(f) /\ IsVerifyRejection(m) /\ res \in {f, m})
         => (f.status = m.status /\ f.message = m.message)

\* The step in which request p's save of a reporter message is applied.
MessageSaved(p) ==
  /\ inflight[p].pc = "save"
  /\ inflight[p].op = "addWhistleblowerMessage"
  /\ inflight'[p].pc = "idle"

\* C3: a reporter message sent with the password of report r is accepted and
\* its save appends exactly one comment of role reporter to r and changes no
\* other report; a message whose password matches no report is rejected, and
\* a rejection leaves every report as it was.
C3_MessageAppend ==
  /\ [](\A s \in Candidates \ {EmptyString} :
          IF \E i \in Ids : issued[i] = s
          THEN MessageRejection(reports, s, "text") = NoResponse
          ELSE MessageRejection(reports, s, "text").status = 401)
  /\ [][/\ \A p \in Procs :
             MessageSaved(p) =>
               \E r \in Ids :
                 /\ issued[r] = inflight[p].password
                 /\ Len(reports') = Len(reports)
                 /\ Len(reports'[r].comments) = Len(reports[r].comments) + 1
                 /\ SubSeq(reports'[r].comments, 1, Len(reports[r].comments)) = reports[r].comments
                 /\ reports'[r].comments[Len(reports'[r].comments)].role = "reporter"
                 /\ \A j \in Ids \ {r} : reports'[j] = reports[j]
        /\ (res'.op = "addWhistleblowerMessage" /\ res'.status \in {400, 401})
             => reports' = reports]_vars

C3_Witness ==
  /\ Len(reports) = 2
  /\ res.op = "addWhistleblowerMessage"
  /\ res.status = 201
  /\ Len(reports[2].comments) = 1
  /\ reports[2].comments[1].role = "reporter"

\* C4: no request performs more than one slow-hash comparison.
C4_SingleComparison ==
  /\ res.compares <= 1
  /\ \A p \in Procs : inflight[p].pc # "idle" => inflight[p].compares <= 1

\* C5: no two stored reports have the same lookup digest, so a plaintext
\* secret resolves to at most one report.
C5_UniqueDigest ==
  /\ \A i, j \in Ids : i # j => reports[i].passwordKey # reports[j].passwordKey
  /\ \A s \in Candidates : Cardinality({i \in Ids : reports[i].passwordKey = Sha256(s)}) <= 1

\* Two creations were in flight together and both reports are stored.
C5_Witness ==
  /\ Len(reports) = 2
  /\ reports[1].caseID.number = reports[2].caseID.number
  /\ res.op = "createReport"
  /\ res.status = 201

\* The step in which request p's insert meets a stored report with the same
\* lookup digest (and no other duplicate key).
DigestCollision(p) ==
  /\ inflight[p].pc = "insert"
  /\ inflight'[p].pc = "idle"
  /\ \E i \in Ids : reports[i].passwordKey = inflight[p].doc.f.passwordKey
  /\ \A i \in Ids : reports[i].caseID # inflight[p].doc.f.caseID

\* C6: a creation whose generated secret collides with a stored digest does
\* not end in an error: the report is stored, under a fresh secret.
C6_CollisionRetried ==
  [][\A p \in Procs :
       DigestCollision(p) => res'.status = 201 /\ Len(reports') = Len(reports) + 1]_vars

SecretPaths == {"generatedPassword", "_plainPassword", "plainPassword"}
SchemaPaths ==
  {"caseID", "reporterType", "reporterName", "reporterEmail", "reporterPhone",
   "title", "description", "status",
   "agencyAssigned", "password", "passwordKey", "category", "isResolved",
   "evidenceFiles", "comments", "history"}

\* C7: the plaintext secret appears only in the 201 response of the creation
\* that minted it; no other response carries it and no stored path holds it.
C7_SecretOnlyAtCreation ==
  /\ (res.op = "createReport" /\ res.status = 201)
       => /\ res.casePassword = issued[res.data[1]._id]
          /\ res.data[1]._id = Len(reports)
  /\ ~(res.op = "createReport" /\ res.status = 201)
       => /\ res.casePassword = EmptyString
          /\ \A k \in 1..Len(res.data) : DOMAIN res.data[k] \cap SecretPaths = {}
  /\ \A i \in Ids :
       /\ DOMAIN reports[i] \subseteq SchemaPaths
       /\ reports[i].password.alg = "bcrypt"
       /\ reports[i].passwordKey.alg = "sha256"

\* An operation after the creation (a follow-up, an admin read or a status
\* update) has answered with the report.
C7_Witness ==
  /\ Len(reports) >= 1
  /\ res.op \in {"getReportByPassword", "getReportById", "updateReportStatus"}
  /\ res.status = 200
  /\ Len(res.data) = 1

\* C8: no step changes the caseID, the reporterType, the lookup digest or the
\* credential hash of a stored report.
C8_IdentityFrozen ==
  [][\A i \in Ids :
       /\ Len(reports') >= Len(reports)
       /\ reports'[i].caseID = reports[i].caseID
       /\ reports'[i].reporterType = reports[i].reporterType
       /\ reports'[i].passwordKey = reports[i].passwordKey
       /\ reports'[i].password = reports[i].password]_vars

\* A status update, a category update and a message have been saved.
C8_Witness ==
  /\ Len(reports) >= 1
  /\ res.status \in {200, 201}
  /\ res.op \in {"updateReportStatus", "updateReportCategory", "assignReportToAgency",
                 "addAdminMessage", "addWhistleblowerMessage"}
  /\ Len(reports[1].history) = 1
  /\ Len(reports[1].comments) = 1

\* C9: no response carries a report's credential hash or lookup digest.
C9_NoHashInResponse ==
  \A k \in 1..Len(res.data) : DOMAIN res.data[k] \cap {"password", "passwordKey"} = {}

C9_Witness ==
  /\ res.op = "getAllReports"
  /\ Len(res.data) = 2

C11_AllIdentityFields ==
  /\ \A i \in Ids :
       reports[i].reporterType = "confidential" => IdentityPaths \subseteq DOMAIN reports[i]
  /\ \A p \in Procs :
       (inflight[p].pc = "insert" /\ inflight[p].doc.f.reporterType = "confidential")
         => IdentityPaths \subseteq DOMAIN inflight[p].doc.f

\* C11, amended: a stored confidential report has its name and its email (the
\* phone is optional), a confidential creation lacking the name or the email
\* does not get past validation, and the 400 it is answered with stores
\* nothing.
C11_NameAndEmail ==
  /\ [](/\ \A i \in Ids :
            reports[i].reporterType = "confidential"
              => {"reporterName", "reporterEmail"} \subseteq DOMAIN reports[i]
        /\ \A p \in Procs :
            (inflight[p].pc = "insert" /\ inflight[p].doc.f.reporterType = "confidential")
              => {"reporterName", "reporterEmail"} \subseteq DOMAIN inflight[p].doc.f
        /\ \A body \in CreateBodies :
            (body.reporterType = "confidential"
               /\ (~Truthy(body.reporterName) \/ ~Truthy(body.reporterEmail)))
              => CreateValidation(body)
                   \in {"Title and description are required fields.",
                        "Confidential reports must include reporter name and email address."})
  /\ [][(res'.op = "createReport" /\ res'.status = 400) => reports' = reports]_vars

\* A confidential report without a phone is stored, and a confidential
\* creation has been rejected for its missing name or email.
C11_Witness ==
  /\ \E i \in Ids : /\ reports[i].reporterType = "confidential"
                     /\ ~Has(reports[i], "reporterPhone")
  /\ res.op = "createReport"
  /\ res.status = 400
  /\ res.message = "Confidential reports must include reporter name and email address."

RECURSIVE FlagAfter(_, _)
FlagAfter(history, n) ==
  IF n = 0 THEN FALSE
  ELSE CASE history[n].status = "resolved" -> TRUE
         [] history[n].status = "closed" -> FlagAfter(history, n - 1)
         [] OTHER -> FALSE

\* The step in which the save of a status update by the admin is applied.
StatusSaved(p) ==
  /\ inflight[p].pc = "save"
  /\ inflight[p].op = "updateReportStatus"
  /\ inflight'[p].pc = "idle"

\* C13: with requests served one at a time, a status update to resolved sets
\* isResolved, one to closed leaves it as it was, one to pending or under
\* review clears it; so after any sequence of transitions the flag is the one
\* the sequence leads to (resolved then closed: TRUE, resolved then pending:
\* FALSE).
C13_ResolvedFlagLaw ==
  /\ [](\A i \in Ids :
          reports[i].isResolved = FlagAfter(reports[i].history, Len(reports[i].history)))
  /\ [][\A p \in Procs :
          StatusSaved(p) =>
            LET id == inflight[p].doc._id
                status == inflight[p].doc.f.status
            IN /\ reports'[id].status = status
               /\ reports'[id].isResolved =
                    CASE status = "resolved" -> TRUE
                      [] status = "closed" -> reports[id].isResolved
                      [] OTHER -> FALSE]_vars

\* A report was resolved and then closed.
C13_Witness ==
  /\ res.op = "updateReportStatus"
  /\ res.status = 200
  /\ \E i \in Ids : /\ Len(reports[i].history) = 2
                     /\ reports[i].history[1].status = "resolved"
                     /\ reports[i].history[2].status = "closed"
                     /\ reports[i].isResolved

\* C14: the status history of a stored report has one entry for the initial
\* status and one more for each status change: it has length 1 once the
\* report is first saved, and a later save adds exactly one entry when it
\* changes the status and none when it does not.
C14_HistoryCountsInitial ==
  /\ [](\A i \in Ids : Len(reports[i].history) >= 1)
  /\ [][/\ Len(reports') = Len(reports) + 1
             => /\ Len(reports'[Len(reports')].history) = 1
                /\ reports'[Len(reports')].history[1].status = "pending"
        /\ \A i \in Ids :
             Len(reports'[i].history) =
               Len(reports[i].history) + (IF reports'[i].status # reports[i].status THEN 1 ELSE 0)]_vars

\* Sequence a is a prefix of sequence b.
IsPrefix(a, b) == Len(a) <= Len(b) /\ SubSeq(b, 1, Len(a)) = a

\* C15: comments, evidenceFiles and history are append-only: in every step
\* and for every stored report, each of the three sequences before the step
\* is a prefix of the sequence after it, and no report disappears.
C15_AppendOnly ==
  [][/\ Len(reports') >= Len(reports)
     /\ \A i \in Ids : \A path \in DOMAIN NoPush :
          IsPrefix(reports[i][path], reports'[i][path])]_vars

\* A report holds a reporter's comment followed by a staff comment, and
\* another save has just been answered.
C15_Witness ==
  /\ res.status \in {200, 201}
  /\ \E i \in Ids : /\ Len(reports[i].comments) = 2
                     /\ reports[i].comments[1].role = "reporter"
                     /\ reports[i].comments[2].role \in {"admin", "agency"}

\* The step in which request p's save of a comment append is applied.
CommentSaved(p) ==
  /\ inflight[p].pc = "save"
  /\ inflight[p].op \in {"addWhistleblowerMessage", "addAdminMessage", "addAgencyMessage"}
  /\ inflight'[p].pc = "idle"

C17_LastWriteWins ==
  [][\A p \in Procs :
       StatusSaved(p) => reports'[inflight[p].doc._id].status = inflight[p].doc.f.status]_vars

\* C18: every stored report has a caseID and no two stored reports have the
\* same one, also when their creations interleave.
C18_UniqueCaseID ==
  /\ \A i \in Ids : Has(reports[i], "caseID") /\ reports[i].caseID.prefix = "LAG"
  /\ \A i, j \in Ids : i # j => reports[i].caseID # reports[j].caseID

\* Two creations counted the same number of reports, drew different suffixes
\* and are both stored.
C18_Witness ==
  /\ Len(reports) = 2
  /\ reports[1].caseID.number = reports[2].caseID.number
  /\ reports[1].caseID.suffix # reports[2].caseID.suffix

UpperHexDigits ==
  {"0", "1", "2", "3", "4", "5", "6", "7", "8", "9", "A", "B", "C", "D", "E", "F"}

\* The 201 response of the creation of an anonymous report.
IsAnonymousCreated(r) ==
  /\ r.op = "createReport"
  /\ r.status = 201
  /\ r.data[1].reporterType = "anonymous"

C20_CreatedWithSentinels ==
  [][Len(reports') = Len(reports) + 1 =>
       LET created == reports'[Len(reports')]
       IN /\ created.category \in DOMAIN categories
          /\ categories[created.category].name = "uncategorised"
          /\ created.agencyAssigned \in DOMAIN agencies
          /\ agencies[created.agencyAssigned].name = "unassigned"]_vars

\* C24: the request of an active agency user with a valid status, on a
\* stored report assigned to the agency the user belongs to, is not rejected
\* by updateAgencyReportStatus.
C24_AgencyCanUpdateStatus ==
  \A u \in DOMAIN users, reportId \in Ids, status \in Statuses :
    (/\ Authorized(u, "agency")
     /\ AgencyOfUser(u) # NoId
     /\ reports[reportId].agencyAssigned = AgencyOfUser(u))
      => UpdateAgencyReportStatusRejection(u, reportId, status) = NoResponse

\* The report is assigned to an agency whose users list holds user u.
AssignedToAgencyOf(u, i) ==
  /\ reports[i].agencyAssigned \in DOMAIN agencies
  /\ u \in agencies[reports[i].agencyAssigned].users

\* C26: an agency user whose agency a report is not assigned to is refused
\* both the comment append and the detail of that report; a refused
\* addAgencyMessage changes no report; and an agency comment is only ever
\* appended to a report assigned to an agency that has an agency user.
C26_AgencyScope ==
  /\ [](\A u \in DOMAIN users, i \in Ids :
          (Authorized(u, "agency") /\ ~AssignedToAgencyOf(u, i)) =>
            /\ AddAgencyMessageRejection(u, i, "text").status \in {403, 404}
            /\ GetAgencyReportByIdResponse(u, i).status \in {403, 404})
  /\ [][/\ (res' # res /\ res'.op = "addAgencyMessage" /\ res'.status # 201)
            => reports' = reports
        /\ \A i \in Ids :
             (/\ Len(reports'[i].comments) > Len(reports[i].comments)
              /\ reports'[i].comments[Len(reports'[i].comments)].role = "agency")
               => \E u \in DOMAIN users : Authorized(u, "agency") /\ AssignedToAgencyOf(u, i)]_vars

\* The agency user's comment has just been stored on a report assigned to
\* the user's agency.
C26_Witness ==
  /\ res.op = "addAgencyMessage"
  /\ res.status = 201
  /\ \E i \in Ids : /\ AssignedToAgencyOf(AgencyUser, i)
                     /\ reports[i].comments # <<>>
                     /\ reports[i].comments[Len(reports[i].comments)].role = "agency"

\* The report the follow-up route resolves candidate secret c to: found by
\* its lookup digest and confirmed by the credential hash; NoId when the
\* route answers anything but 200.
FollowUpResolves(c) ==
  IF FollowUpResponse(reports, c).status = 200
  THEN FollowUpResponse(reports, c).data[1]._id
  ELSE NoId

\* The report the message route resolves c to by its scan; NoId when the
\* route rejects the request.
MessageResolves(c) ==
  IF MessageRejection(reports, c, "text") = NoResponse
  THEN ScanMatch(reports, c)
  ELSE NoId

\* C27: in every state and for every candidate secret, the digest lookup of
\* getReportByPassword and the scan of addWhistleblowerMessage resolve to
\* the same report, or both to none.
C27_SameResolution ==
  \A c \in Candidates : FollowUpResolves(c) = MessageResolves(c)

\* Two reports are stored and a secret resolves, on both routes, to the
\* second; another secret resolves to none on both.
C27_Witness ==
  /\ Len(reports) = 2
  /\ \E c \in Candidates : FollowUpResolves(c) = 2 /\ MessageResolves(c) = 2
  /\ \E c \in Candidates \ {EmptyString} : FollowUpResolves(c) = NoId /\ MessageResolves(c) = NoId

\* C25: whatever way status updates of the admin route and of the agency
\* route interleave, a stored report in status resolved is flagged resolved
\* and one in status pending or under review is not.
C25_FlagFollowsStatus ==
  \A i \in Ids :
    /\ reports[i].status = "resolved" => reports[i].isResolved
    /\ reports[i].status \in {"pending", "under review"} => ~reports[i].isResolved

\* A step that answers 200 or 201 and has changed a collection, while the
\* writes to the audit log succeed.
Changed ==
  /\ sink = "up"
  /\ res' # res
  /\ res'.status \in {200, 201}
  /\ <<reports, categories, agencies, users>>' # <<reports, categories, agencies, users>>

\* C22: every successful state-changing operation appends one entry to the
\* audit log.
C22_EveryActionRecorded ==
  [][Changed => Len(auditLog') = Len(auditLog) + 1]_vars

\* C23: the request whose report reaches the store is answered 201 with the
\* report and its secret, also when the audit append fails, so every stored
\* report's secret was sent to its creator.
C23_SecretDelivered ==
  [][Len(reports') = Len(reports) + 1 =>
       /\ res'.status = 201
       /\ res'.data # <<>>
       /\ res'.casePassword # EmptyString
       /\ issued'[Len(reports')] = res'.casePassword]_vars

\* C21: at most one user has the role admin.
C21_OneAdmin == Cardinality(Admins(users)) <= 1

\* C28: a createUser request answered with an error leaves the users and
\* every agency's users list as they were.
C28_FailedCreateChangesNothing ==
  [][(res' # res /\ res'.op = "createUser" /\ res'.status # 201)
       => users' = users /\ agencies' = agencies]_vars

\* C29: a user with the role admin exists in every state.
C29_AdminRemains == Admins(users) # {}

\* The users a route of the given role's router serves.
ActiveWith(role) == {u \in DOMAIN users : users[u].active /\ users[u].role = role}

\* The handlers behind protect and authorize(role).
RouteOps(role) ==
  IF role = "admin" THEN {"createUser", "updateUser", "deleteUser", "getUsers"}
  ELSE {"getAgencyReports"}

\* A step in which a handler starts: it suspends at an await or answers at
\* once.
Begun(op) ==
  \/ \E p \in Procs : inflight[p] = Idle /\ inflight'[p] # Idle /\ inflight'[p].op = op
  \/ inflight' = inflight /\ res' # res /\ res'.op = op

\* C30: a user that is deleted or deactivated is rejected by protect, 404 or
\* 403, on the routes of both routers, whatever token it holds, and a
\* deactivated user is refused by login; so once no active user of a role is
\* left no handler of that role's routes starts, and every login answered 200
\* is that of an active user.
C30_RevokedUsersRejected ==
  /\ [](\A u \in UserIds, role \in {"admin", "agency"} :
          /\ u \notin DOMAIN users => Protect(u, role).status = 404
          /\ (u \in DOMAIN users /\ ~users[u].active) =>
               /\ Protect(u, role).status = 403
               /\ \A password \in LoginPasswords :
                    LoginResponse(users[u].email, password).status \in {400, 403})
  /\ [][/\ \A role \in {"admin", "agency"} :
             ActiveWith(role) = {} => \A op \in RouteOps(role) : ~Begun(op)
        /\ (res' # res /\ res'.op = "login" /\ res'.status = 200)
             => users[res'.data[1].id].active]_vars

\* The only admin has been deactivated and a request with its token has just
\* been rejected by protect.
C30_Witness ==
  /\ ActiveWith("admin") = {}
  /\ Admins(users) # {}
  /\ res.op = "admin"
  /\ res.status = 403
  /\ res.message = "Account is deactivated"

====
